---- MODULE Spec2Model ----
(***************************************************************************)
(* The web reader of src/webreader/src/main.ts as a state machine: the     *)
(* module-level state (session, book, rendition, navLabels, currentLabel), *)
(* the DOM surfaces it writes (status, meta, toc, viewer, auth message),   *)
(* every openBook invocation with its position at each await, the events   *)
(* of the rendering collaborator and the user's actions.                   *)
(*                                                                         *)
(* Strings the code computes on (hrefs, labels, file names) are sequences  *)
(* of one-character strings, so that cleanHref, cleanText and trim are     *)
(* computed as the code computes them.                                     *)
(***************************************************************************)
EXTENDS Integers, Sequences, FiniteSets, TLC

\* ---- bounds of the model ----
\* number of openBook invocations in one behaviour
MaxOpen == 2
\* number of login submissions in one behaviour
MaxLogin == 1

\* register forms submitted in one run
MaxRegister == 1

\* requests the auth service receives in one run
MaxReq == 3

\* days the auth service's clock runs
MaxTime == 2

\* characters of a reference under study
MaxRef == 5

\* files in a list the user drops or selects
MaxFiles == 3

\* nesting levels of a table of contents under study
MaxDepth == 3

\* entries of a table of contents under study
MaxNodes == 4

\* ---- character strings ----
Digit(i) == IF i = 1 THEN "1" ELSE IF i = 2 THEN "2" ELSE IF i = 3 THEN "3" ELSE "4"

IsSpace(c) == c = " "

RECURSIVE TrimStart(_)
TrimStart(s) == IF s # <<>> /\ IsSpace(Head(s)) THEN TrimStart(Tail(s)) ELSE s

RECURSIVE TrimEnd(_)
TrimEnd(s) ==
  IF s # <<>> /\ IsSpace(s[Len(s)]) THEN TrimEnd(SubSeq(s, 1, Len(s) - 1)) ELSE s

\* String.prototype.trim
Trim(s) == TrimEnd(TrimStart(s))

\* positions of character c in s
Positions(s, c) == {p \in 1..Len(s) : s[p] = c}

Max(S) == CHOOSE x \in S : \A y \in S : y <= x

Min(S) == CHOOSE x \in S : \A y \in S : x <= y

\* href.split('#')[0]
cleanHref(href) ==
  IF Positions(href, "#") = {} THEN href
  ELSE SubSeq(href, 1, Min(Positions(href, "#")) - 1)

\* value.split('/').pop()
LastSegment(value) ==
  IF Positions(value, "/") = {} THEN value
  ELSE SubSeq(value, Max(Positions(value, "/")) + 1, Len(value))

\* .replace(/[-_]/g, ' ')
ReplaceDashes(s) == [p \in 1..Len(s) |-> IF s[p] \in {"-", "_"} THEN " " ELSE s[p]]

\* the first dot and what follows it removed
StripFromFirstDot(s) ==
  IF Positions(s, ".") = {} \/ Min(Positions(s, ".")) = Len(s) THEN s
  ELSE SubSeq(s, 1, Min(Positions(s, ".")) - 1)

\* .replace(/\.[^.]+$/, ''): the last dot and what follows it, when something follows
StripExtension(s) ==
  IF Positions(s, ".") = {} \/ Max(Positions(s, ".")) = Len(s) THEN s
  ELSE SubSeq(s, 1, Max(Positions(s, ".")) - 1)

cleanText(value) == Trim(StripExtension(ReplaceDashes(LastSegment(value))))


\* ---- values ----
\* null for the book and rendition references
NoHandle == [kind |-> "none", owner |-> 0]

\* the handle ePub(buffer) returns in invocation i (main.ts line 303)
Bk(i) == [kind |-> "book", owner |-> i]

\* the handle book.renderTo returns in invocation i (main.ts line 306)
Rd(i) == [kind |-> "rendition", owner |-> i]

Invocations == 1..MaxOpen

Books == {Bk(i) : i \in Invocations}

Renditions == {Rd(i) : i \in Invocations}

AllHandles == Books \cup Renditions

\* session: SessionPayload | null
NoSession == [token |-> "", user |-> ""]

\* the SessionPayload the auth service answers a successful login with
LoginPayload == [token |-> "tok", user |-> "ada"]

\* what a successful register answers
RegisterPayload == [token |-> "reg", user |-> "bob"]

\* a payload an earlier visit left in localStorage
StoredPayload == [token |-> "old", user |-> "ada"]

\* the user GET /api/auth/me may answer with
MeUsers == {"ada", "ada l."}

\* new Map()
EmptyMap == [k \in {} |-> <<>>]

\* Map.prototype.set
MapSet(m, k, v) == [x \in (DOMAIN m) \cup {k} |-> IF x = k THEN v ELSE m[x]]

\* currentLabel = 'idle'
IDLE == <<"i", "d", "l", "e">>

READING == <<"r", "e", "a", "d", "i", "n", "g">>

\* the text of statusEl: a literal of the code, a label, or `${label} / ${pct}%`
LitStatus(s) == [k |-> "lit", s |-> s, l |-> <<>>, p |-> 0]

LabelStatus(l) == [k |-> "label", s |-> "", l |-> l, p |-> 0]

PctStatus(l, p) == [k |-> "pct", s |-> "", l |-> l, p |-> p]

StatusLoading == LitStatus("loading epub...")

StatusReady == LitStatus("use arrows, nav, or scroll freely")

StatusFailed == LitStatus("unable to load epub")

StatusLoginRequired == LitStatus("login required to open books")

\* the text of metaEl
MetaLit(s) == [k |-> "lit", s |-> s, t |-> <<>>, a |-> <<>>]

\* setMeta(title, author): an absent author is the empty string
setMeta(title, author) ==
  IF Len(author) > 0 /\ Len(Trim(author)) > 0
  THEN [k |-> "joined", s |-> "", t |-> title, a |-> author]
  ELSE [k |-> "plain", s |-> "", t |-> title, a |-> <<>>]

\* tocEl.innerHTML = ''
EmptyToc == [note |-> FALSE, links |-> <<>>]

\* ---- the files the user opens: invocation i opens file i ----
FileName(i) == <<"m", "y", "_", Digit(i), ".", "e", "p", "u", "b">>

\* navigation.toc of the book made from file i: odd files carry a two-level
\* table of contents (one entry with a blank label), even files carry none
Toc(i) ==
  IF i % 2 = 1
  THEN << [href |-> <<"c", "/", "a", Digit(i), ".", "x", "#", "s">>,
           label |-> <<" ", "A", Digit(i), " ">>,
           subitems |-> << [href |-> <<"c", "/", "b", "_", Digit(i), ".", "x">>,
                            label |-> <<" ">>,
                            subitems |-> <<>>] >>] >>
  ELSE <<>>

\* the section hrefs the rendition of the book of file i reports as rendered
Sections(i) ==
  { <<"c", "/", "a", Digit(i), ".", "x", "#", "t">>,
    <<"c", "/", "b", "_", Digit(i), ".", "x">> }

\* book.loaded.metadata of the book of file i: even files have a blank title
Metadata(i) ==
  IF i % 2 = 1
  THEN [title |-> <<" ", "T", Digit(i)>>, creator |-> <<"W", " ">>]
  ELSE [title |-> <<" ">>, creator |-> <<>>]

\* the positions a 'relocated' event reports, as the fraction
\* percentageFromCfi gives them, in ten-thousandths
Cfis == {4950, 10000}

\* the lengths locations.length() can have once generate has resolved
LocLengths == {0, 2}

\* Math.round(fraction * 100) for a fraction n / 10000, n >= 0
\* the percentage truncated instead of rounded
RoundPctDown(n) == n \div 100

RoundPct(n) == (n + 50) \div 100

\* every fraction percentageFromCfi may return, in ten-thousandths
Fractions == 0..10000


\* ---- state ----
VARIABLES
  session,        \* let session (main.ts line 25)
  stored,         \* window.localStorage[SESSION_KEY]
  uiAuthed,       \* what updateAuthUI last painted: controls enabled
  authMessage,    \* authMessage.textContent
  statusEl,       \* statusEl.textContent
  metaEl,         \* metaEl.textContent
  tocEl,          \* the children of tocEl
  viewerEl,       \* the renditions whose container is inside viewerEl
  fileInputValue, \* fileInput.value is not ''
  book,           \* let book (line 106)
  rendition,      \* let rendition (line 107)
  navLabels,      \* let navLabels (line 108)
  currentLabel,   \* let currentLabel (line 109)
  handles,        \* the collaborator's objects: made, destroyed, subscriptions
  inv,            \* each openBook invocation: its await and what it published
  nOpen,          \* openBook invocations started so far
  overlap,        \* invocations that ran while another openBook was in flight
  cut,            \* invocations that were in flight when logout was handled
  loggedOut,      \* logout was handled and no openBook has started since
  loginsSent,     \* login forms submitted so far
  loginsPending,  \* login requests in flight
  calls,          \* the navigation calls the last step made on a rendition
  parsed,         \* the payload bootstrapSession read from localStorage
  mePending,      \* the GET /api/auth/me of bootstrapSession is in flight
  registersSent,  \* register forms submitted so far
  registersPending, \* register requests in flight
  probe,          \* a function of the code under study: its input and its result
  users,          \* the rows of the users table of the auth service
  nextId,         \* the next value uuid_generate_v4() gives
  now,            \* the clock of the auth service, in days
  reqs,           \* the requests the auth service has received
  nReq            \* how many it has received

vars ==
  << session, stored, uiAuthed, authMessage, statusEl, metaEl, tocEl, viewerEl,
     fileInputValue, book, rendition, navLabels, currentLabel, handles, inv,
     nOpen, overlap, cut, loggedOut, loginsSent, loginsPending, calls,
     parsed, mePending, registersSent, registersPending, probe,
     users, nextId, now, reqs, nReq >>

\* the state of the auth service
serverVars == << users, nextId, now, reqs, nReq >>

\* the state of the page
clientVars ==
  << session, stored, uiAuthed, authMessage, statusEl, metaEl, tocEl, viewerEl,
     fileInputValue, book, rendition, navLabels, currentLabel, handles, inv,
     nOpen, overlap, cut, loggedOut, loginsSent, loginsPending, calls,
     parsed, mePending, registersSent, registersPending >>

\* everything but probe
pageVars == << clientVars, serverVars >>

\* what the reader's handlers and the login handlers never touch
restVars == << parsed, mePending, registersSent, registersPending, probe, serverVars >>

authVars == << session, stored, uiAuthed >>

readerVars == << book, rendition, navLabels, currentLabel, tocEl, viewerEl, handles >>

openVars == << inv, nOpen, overlap >>

loginVars == << loginsSent, loginsPending >>

\* no function is under study
NoProbe == [fn |-> "none"]

\* a collaborator object that has not been constructed
Unmade ==
  [made |-> FALSE, destroyed |-> 0, from |-> NoHandle, subs |-> {},
   shown |-> FALSE, locs |-> 0]

\* an openBook invocation that has not started
Unstarted ==
  [pc |-> "unstarted", aw |-> NoHandle, failedAt |-> "none", pubLast |-> "none",
   pubReady |-> FALSE, pubFailed |-> FALSE, metaOk |-> FALSE, genRejected |-> FALSE]

InFlight(i) == inv[i].pc \notin {"unstarted", "done"}

\* handle.destroy()
Destroy(hs, h) == [hs EXCEPT ![h].destroyed = @ + 1]

\* the state resetBook reads and writes
Reader ==
  [book |-> book, rendition |-> rendition, navLabels |-> navLabels,
   currentLabel |-> currentLabel, tocEl |-> tocEl, viewerEl |-> viewerEl,
   handles |-> handles]

\* resetBook with line 218 left out: the rendition is destroyed, the reference kept
ResetBookKeepsRendition(r) ==
  LET h1 == IF r.rendition # NoHandle THEN Destroy(r.handles, r.rendition) ELSE r.handles
      h2 == IF r.book # NoHandle THEN Destroy(h1, r.book) ELSE h1
  IN  [book |-> NoHandle, rendition |-> r.rendition, navLabels |-> EmptyMap,
       currentLabel |-> IDLE, tocEl |-> EmptyToc, viewerEl |-> {}, handles |-> h2]

\* resetBook (lines 210-225)
ResetBook(r) ==
  LET h1 == IF r.rendition # NoHandle THEN Destroy(r.handles, r.rendition) ELSE r.handles
      h2 == IF r.book # NoHandle THEN Destroy(h1, r.book) ELSE h1
  IN  [book |-> NoHandle, rendition |-> NoHandle, navLabels |-> EmptyMap,
       currentLabel |-> IDLE, tocEl |-> EmptyToc, viewerEl |-> {}, handles |-> h2]

\* paint keeping the first label it met for an href
RECURSIVE PaintFirstWins(_, _, _)
PaintFirstWins(list, depth, acc) ==
  IF list = <<>> THEN acc
  ELSE LET item == Head(list)
           key == cleanHref(item.href)
           acc1 == [labels |-> IF key \in DOMAIN acc.labels THEN acc.labels
                               ELSE MapSet(acc.labels, key, Trim(item.label)),
                    links |-> Append(acc.links,
                                [text |-> item.label, href |-> item.href, depth |-> depth])]
           acc2 == IF Len(item.subitems) > 0
                   THEN PaintFirstWins(item.subitems, depth + 1, acc1)
                   ELSE acc1
       IN  PaintFirstWins(Tail(list), depth, acc2)

\* paint, the walk inside renderToc (lines 240-260)
RECURSIVE Paint(_, _, _)
Paint(list, depth, acc) ==
  IF list = <<>> THEN acc
  ELSE LET item == Head(list)
           acc1 == [labels |-> MapSet(acc.labels, cleanHref(item.href), Trim(item.label)),
                    links |-> Append(acc.links,
                                [text |-> item.label, href |-> item.href, depth |-> depth])]
           acc2 == IF Len(item.subitems) > 0
                   THEN Paint(item.subitems, depth + 1, acc1)
                   ELSE acc1
       IN  Paint(Tail(list), depth, acc2)

\* renderToc (lines 227-264): the label index and the children of tocEl it leaves
renderToc(items, labels) ==
  IF Len(items) = 0
  THEN [navLabels |-> labels, tocEl |-> [note |-> TRUE, links |-> <<>>]]
  ELSE LET p == Paint(items, 0, [labels |-> labels, links |-> <<>>])
       IN  [navLabels |-> p.labels, tocEl |-> [note |-> FALSE, links |-> p.links]]

\* navLabels.get(normalized) ?? cleanText(normalized) (line 318)
ResolveLabel(labels, href) ==
  LET normalized == cleanHref(href)
  IN  IF normalized \in DOMAIN labels THEN labels[normalized] ELSE cleanText(normalized)

\* the guard of updateProgress (line 267): a percentage can be computed
HasLocations(b, hs) == b # NoHandle /\ hs[b].locs > 0

\* updateProgress without the early return of lines 267-269
updateProgressUnguarded(cfi, b, hs, label, status) ==
  PctStatus(IF Len(label) > 0 THEN label ELSE READING, RoundPct(cfi))

\* updateProgress (lines 266-274): the status it leaves
updateProgress(cfi, b, hs, label, status) ==
  IF ~HasLocations(b, hs) THEN status
  ELSE PctStatus(IF Len(label) > 0 THEN label ELSE READING, RoundPct(cfi))

\* the page as the markup and the module's declarations leave it (lines 106-109)
ReaderInit ==
  /\ statusEl = LitStatus("idle")
  /\ metaEl = MetaLit("no book loaded")
  /\ tocEl = EmptyToc
  /\ viewerEl = {}
  /\ fileInputValue = FALSE
  /\ book = NoHandle
  /\ rendition = NoHandle
  /\ navLabels = EmptyMap
  /\ currentLabel = IDLE
  /\ handles = [h \in AllHandles |-> Unmade]
  /\ inv = [i \in Invocations |-> Unstarted]
  /\ nOpen = 0
  /\ overlap = {}
  /\ cut = {}
  /\ loggedOut = FALSE
  /\ loginsSent = 0
  /\ loginsPending = 0
  /\ calls = <<>>
  /\ registersSent = 0
  /\ registersPending = 0

\* bootstrapSession (lines 172-188) up to its first await, for the payload s
\* found in localStorage (NoSession: nothing is stored)
bootstrapSession(s) ==
  /\ stored = s
  /\ parsed = s
  /\ session = s
  /\ uiAuthed = (s # NoSession)
  /\ authMessage = IF s # NoSession THEN "reader unlocked" ELSE "sign in to unlock the reader"
  /\ mePending = (s # NoSession)

\* ---- the values of the auth service (part_002) ----
\* no row, no user in an answer
NoUser == [id |-> 0, email |-> <<>>, displayName |-> <<>>, createdAt |-> 0]

\* no token in an answer or in a request
NoToken == [sub |-> 0, email |-> <<>>, displayName |-> <<>>, exp |-> 0, sig |-> "none"]

\* res.status(status).json({ message }) and res.status(status).json({ user, token })
Answer(status, message, user, token) ==
  [status |-> status, message |-> message, user |-> user, token |-> token]

\* no answer yet
NoAnswer == Answer(0, "", NoUser, NoToken)

\* a slot no request has taken
NoRequest ==
  [kind |-> "none", pc |-> "idle", email |-> <<>>, password |-> <<>>, name |-> <<>>,
   token |-> NoToken, at |-> 0, res |-> NoAnswer]

\* the service started on an empty table
ServerIdle ==
  /\ users = {}
  /\ nextId = 1
  /\ now = 0
  /\ reqs = [r \in 1..MaxReq |-> NoRequest]
  /\ nReq = 0

\* a first visit: nothing is stored
Page == ReaderInit /\ bootstrapSession(NoSession) /\ ServerIdle

Init == Page /\ probe = NoProbe


\* ---- the auth gate and the session ----
\* persistSession without the localStorage calls of lines 145-149
persistSessionInMemory(payload) ==
  /\ session' = payload
  /\ stored' = stored
  /\ uiAuthed' = (payload # NoSession)

\* persistSession (lines 143-151) with the updateAuthUI it ends with (131-141)
persistSession(payload) ==
  /\ session' = payload
  /\ stored' = payload
  /\ uiAuthed' = (payload # NoSession)

\* what updateAuthUI writes to authMessage (line 140)
AuthUIMessage(payload) ==
  IF payload # NoSession THEN "reader unlocked" ELSE "sign in to unlock the reader"

\* guardAuth (lines 153-161) returning false: the message and the status it sets
Refuse ==
  /\ authMessage' = "sign in first - then import"
  /\ statusEl' = StatusLoginRequired
  /\ calls' = <<>>
  /\ UNCHANGED << restVars, authVars, readerVars, openVars, loginVars, metaEl, cut, loggedOut >>

\* a call on a rendition, as calls records it
Call(h, op, target) == [h |-> h, op |-> op, target |-> target]

\* ---- openBook (lines 296-348) ----
Publish(rec, what) ==
  [rec EXCEPT !.pubLast = what,
              !.pubReady = @ \/ what = "ready",
              !.pubFailed = @ \/ what = "failed"]

\* the catch block with line 344 left out: the failure is logged and not published
CaughtSilent(i, step) ==
  /\ inv' = [inv EXCEPT ![i] = [@ EXCEPT !.pc = "done", !.aw = NoHandle, !.failedAt = step]]
  /\ statusEl' = statusEl
  /\ fileInputValue' = FALSE

\* the catch and finally blocks (lines 342-347) after a failure in `step`
Caught(i, step) ==
  /\ inv' = [inv EXCEPT ![i] =
               Publish([@ EXCEPT !.pc = "done", !.aw = NoHandle, !.failedAt = step],
                       "failed")]
  /\ statusEl' = StatusFailed
  /\ fileInputValue' = FALSE

\* line 341 and the finally block: the invocation ends ready
Finished(i, rejected) ==
  /\ inv' = [inv EXCEPT ![i] =
               Publish([@ EXCEPT !.pc = "done", !.aw = NoHandle, !.metaOk = TRUE,
                                 !.genRejected = rejected], "ready")]
  /\ statusEl' = StatusReady
  /\ fileInputValue' = FALSE

\* lines 297-302: the teardown, the title, the loading status, then the first await
OpenStart(i) ==
  LET r == ResetBook(Reader)
      others == {j \in Invocations : InFlight(j)}
  IN  /\ i = nOpen + 1
      /\ i <= MaxOpen
      /\ nOpen' = i
      /\ book' = r.book
      /\ rendition' = r.rendition
      /\ navLabels' = r.navLabels
      /\ currentLabel' = r.currentLabel
      /\ tocEl' = r.tocEl
      /\ viewerEl' = r.viewerEl
      /\ handles' = r.handles
      /\ metaEl' = setMeta(FileName(i), <<>>)
      /\ statusEl' = StatusLoading
      /\ inv' = [inv EXCEPT ![i] = Publish([@ EXCEPT !.pc = "buf"], "loading")]
      /\ overlap' = IF others = {} THEN overlap ELSE overlap \cup others \cup {i}
      /\ loggedOut' = FALSE
      /\ calls' = <<>>
      /\ UNCHANGED << restVars, authVars, authMessage, loginVars, cut >>

\* pickAndOpen (lines 350-361), called by the change handler of the file input
\* (363-365), whose value the browser has set to the picked file, or by the drop
\* handler (485-490); `empty` is a file list with no file in it
PickAndOpen(fromInput, empty) ==
  /\ fileInputValue' = IF fromInput THEN ~empty ELSE fileInputValue
  /\ IF session = NoSession THEN Refuse
     ELSE IF empty
          THEN /\ calls' = <<>>
               /\ UNCHANGED << restVars, authVars, authMessage, statusEl, metaEl, readerVars,
                               openVars, loginVars, cut, loggedOut >>
          ELSE OpenStart(nOpen + 1)

\* line 302 settles; line 303 constructs the book; line 304 awaits its ready signal
BufDone(i, out) ==
  /\ inv[i].pc = "buf"
  /\ calls' = <<>>
  /\ UNCHANGED << restVars, authVars, authMessage, loginVars, metaEl, nOpen, overlap, cut, loggedOut,
                  rendition, navLabels, currentLabel, tocEl, viewerEl >>
  /\ CASE out = "reject" -> Caught(i, "read") /\ UNCHANGED << book, handles >>
       [] out = "throw" -> Caught(i, "construct") /\ UNCHANGED << book, handles >>
       [] OTHER ->
            /\ book' = Bk(i)
            /\ handles' = [handles EXCEPT ![Bk(i)].made = TRUE]
            /\ inv' = [inv EXCEPT ![i].pc = "ready", ![i].aw = Bk(i)]
            /\ UNCHANGED << statusEl, fileInputValue >>

\* line 304 settles; lines 306-324 create the rendition, theme it and subscribe;
\* line 326 awaits the navigation of the book the reference holds
BookReady(i, out, fault) ==
  /\ inv[i].pc = "ready"
  /\ calls' = <<>>
  /\ UNCHANGED << restVars, authVars, authMessage, loginVars, metaEl, nOpen, overlap, cut, loggedOut,
                  book, navLabels, currentLabel, tocEl >>
  /\ CASE out = "reject" ->
            /\ fault = "none"
            /\ Caught(i, "ready")
            /\ UNCHANGED << rendition, handles, viewerEl >>
       [] book = NoHandle \/ fault = "render" ->
            /\ fault \in {"none", "render"}
            /\ Caught(i, "render")
            /\ UNCHANGED << rendition, handles, viewerEl >>
       [] OTHER ->
            /\ rendition' = Rd(i)
            /\ viewerEl' = viewerEl \cup {Rd(i)}
            /\ handles' = [handles EXCEPT ![Rd(i)] =
                 [@ EXCEPT !.made = TRUE, !.from = book,
                           !.subs = CASE fault \in {"theme", "subscribe1"} -> {}
                                      [] fault = "subscribe2" -> {"rendered"}
                                      [] OTHER -> {"rendered", "relocated"}]]
            /\ CASE fault = "theme" -> Caught(i, "theme")
                 [] fault \in {"subscribe1", "subscribe2"} -> Caught(i, "subscribe")
                 [] OTHER ->
                      /\ inv' = [inv EXCEPT ![i].pc = "nav", ![i].aw = book]
                      /\ UNCHANGED << statusEl, fileInputValue >>

\* line 326 settles; line 327 paints the table of contents; line 329 asks the
\* rendition the reference holds for the initial display
NavDone(i, out) ==
  /\ inv[i].pc = "nav"
  /\ UNCHANGED << restVars, authVars, authMessage, loginVars, metaEl, nOpen, overlap, cut, loggedOut,
                  book, rendition, currentLabel, viewerEl >>
  /\ IF out = "reject"
     THEN /\ Caught(i, "toc")
          /\ calls' = <<>>
          /\ UNCHANGED << navLabels, tocEl, handles >>
     ELSE LET t == renderToc(Toc(inv[i].aw.owner), navLabels)
          IN  /\ navLabels' = t.navLabels
              /\ tocEl' = t.tocEl
              /\ IF rendition = NoHandle
                 THEN /\ Caught(i, "display")
                      /\ calls' = <<>>
                      /\ UNCHANGED handles
                 ELSE /\ calls' = << Call(rendition, "display", <<>>) >>
                      /\ handles' = [handles EXCEPT ![rendition].shown = TRUE]
                      /\ inv' = [inv EXCEPT ![i].pc = "display", ![i].aw = rendition]
                      /\ UNCHANGED << statusEl, fileInputValue >>

\* line 329 settles; line 331 awaits the metadata of the book the reference holds
DisplayDone(i, out) ==
  /\ inv[i].pc = "display"
  /\ calls' = <<>>
  /\ UNCHANGED << restVars, authVars, authMessage, loginVars, metaEl, nOpen, overlap, cut, loggedOut,
                  readerVars >>
  /\ CASE out = "reject" -> Caught(i, "display")
       [] book = NoHandle -> Caught(i, "metadata")
       [] OTHER ->
            /\ inv' = [inv EXCEPT ![i].pc = "meta", ![i].aw = book]
            /\ UNCHANGED << statusEl, fileInputValue >>

\* line 331 settles; lines 332-333 publish the title; line 336 starts the
\* location index of the book the reference holds, inside the inner try
MetaDone(i, out) ==
  /\ inv[i].pc = "meta"
  /\ calls' = <<>>
  /\ UNCHANGED << restVars, authVars, authMessage, loginVars, nOpen, overlap, cut, loggedOut,
                  readerVars >>
  /\ IF out = "reject"
     THEN Caught(i, "metadata") /\ UNCHANGED metaEl
     ELSE LET md == Metadata(inv[i].aw.owner)
              title == IF Len(Trim(md.title)) > 0 THEN Trim(md.title)
                       ELSE cleanText(FileName(i))
          IN  /\ metaEl' = setMeta(title, Trim(md.creator))
              /\ IF book = NoHandle
                 THEN Finished(i, FALSE)
                 ELSE /\ inv' = [inv EXCEPT ![i].pc = "gen", ![i].aw = book,
                                            ![i].metaOk = TRUE]
                      /\ UNCHANGED << statusEl, fileInputValue >>


\* lines 336-341 without the inner try: a rejected generate reaches the outer catch
GenDoneFatal(i, out, n) ==
  /\ inv[i].pc = "gen"
  /\ calls' = <<>>
  /\ UNCHANGED << restVars, authVars, authMessage, loginVars, metaEl, nOpen, overlap, cut, loggedOut,
                  book, rendition, navLabels, currentLabel, tocEl, viewerEl >>
  /\ IF out = "reject"
     THEN Caught(i, "locations") /\ UNCHANGED handles
     ELSE /\ Finished(i, FALSE)
          /\ handles' = [handles EXCEPT ![inv[i].aw].locs = n]

\* line 336 settles (resolved with a location index of length n, or rejected and
\* caught at 337-339); line 341 publishes the ready status
GenDone(i, out, n) ==
  /\ inv[i].pc = "gen"
  /\ calls' = <<>>
  /\ UNCHANGED << restVars, authVars, authMessage, loginVars, metaEl, nOpen, overlap, cut, loggedOut,
                  book, rendition, navLabels, currentLabel, tocEl, viewerEl >>
  /\ IF out = "reject"
     THEN Finished(i, TRUE) /\ UNCHANGED handles
     ELSE /\ Finished(i, FALSE)
          /\ handles' = [handles EXCEPT ![inv[i].aw].locs = n]

\* ---- the events of the rendering collaborator ----
\* a rendition that can emit: constructed, displayed and not destroyed
Emits(r, event) ==
  /\ handles[r].made
  /\ handles[r].shown
  /\ handles[r].destroyed = 0
  /\ event \in handles[r].subs

\* the 'rendered' handler (lines 316-320)
RenderedEv(r, section) ==
  /\ Emits(r, "rendered")
  /\ section \in Sections(handles[r].from.owner)
  /\ currentLabel' = ResolveLabel(navLabels, section)
  /\ statusEl' = LabelStatus(currentLabel')
  /\ calls' = <<>>
  /\ UNCHANGED << restVars, authVars, authMessage, loginVars, metaEl, openVars, cut, loggedOut,
                  book, rendition, navLabels, tocEl, viewerEl, handles, fileInputValue >>

\* the 'relocated' handler (lines 322-324)
RelocatedEv(r, cfi) ==
  /\ Emits(r, "relocated")
  /\ statusEl' = updateProgress(cfi, book, handles, currentLabel, statusEl)
  /\ calls' = <<>>
  /\ UNCHANGED << restVars, authVars, authMessage, loginVars, metaEl, openVars, cut, loggedOut,
                  readerVars, fileInputValue >>

\* ---- the user's navigation ----
\* the click handlers without the guardAuth call of lines 368 and 376
NavClickUnguarded(op) ==
  /\ calls' = IF rendition # NoHandle THEN << Call(rendition, op, <<>>) >> ELSE <<>>
  /\ UNCHANGED << restVars, authVars, authMessage, statusEl, metaEl, readerVars, openVars,
                  loginVars, fileInputValue, cut, loggedOut >>

\* the click handlers of prevBtn and nextBtn (lines 367-381)
NavClick(op) ==
  /\ UNCHANGED fileInputValue
  /\ IF session = NoSession THEN Refuse
     ELSE /\ calls' = IF rendition # NoHandle THEN << Call(rendition, op, <<>>) >> ELSE <<>>
          /\ UNCHANGED << restVars, authVars, authMessage, statusEl, metaEl, readerVars, openVars,
                          loginVars, cut, loggedOut >>

\* the keydown handler (lines 434-448); op is "none" for any other key
Keydown(op) ==
  /\ calls' = IF rendition = NoHandle \/ session = NoSession \/ op = "none" THEN <<>>
              ELSE << Call(rendition, op, <<>>) >>
  /\ UNCHANGED << restVars, authVars, authMessage, statusEl, metaEl, readerVars, openVars,
                  loginVars, fileInputValue, cut, loggedOut >>

\* the click handler of the k-th toc-link button (lines 250-252)
TocClick(k) ==
  /\ k \in 1..Len(tocEl.links)
  /\ calls' = IF rendition # NoHandle
              THEN << Call(rendition, "display", tocEl.links[k].href) >> ELSE <<>>
  /\ handles' = IF rendition # NoHandle
                THEN [handles EXCEPT ![rendition].shown = TRUE] ELSE handles
  /\ UNCHANGED << restVars, authVars, authMessage, statusEl, metaEl, openVars, loginVars,
                  fileInputValue, cut, loggedOut, book, rendition, navLabels,
                  currentLabel, tocEl, viewerEl >>

\* ---- login and logout ----
\* the submit handler of loginForm up to the request (lines 405-414)
LoginSubmit ==
  /\ loginsSent < MaxLogin
  /\ loginsSent' = loginsSent + 1
  /\ loginsPending' = loginsPending + 1
  /\ authMessage' = "checking credentials..."
  /\ statusEl' = LitStatus("signing in...")
  /\ calls' = <<>>
  /\ UNCHANGED << restVars, authVars, metaEl, readerVars, openVars, fileInputValue, cut, loggedOut >>

\* the .then of the login request (lines 415-419)
LoginOk ==
  /\ loginsPending > 0
  /\ loginsPending' = loginsPending - 1
  /\ persistSession(LoginPayload)
  /\ authMessage' = "signed in - import away"
  /\ calls' = <<>>
  /\ UNCHANGED << restVars, loginsSent, statusEl, metaEl, readerVars, openVars, fileInputValue,
                  cut, loggedOut >>

\* the .catch of the login request dropping the session as well
LoginFailSignsOut(message) ==
  /\ loginsPending > 0
  /\ loginsPending' = loginsPending - 1
  /\ persistSession(NoSession)
  /\ authMessage' = message
  /\ statusEl' = LitStatus(message)
  /\ calls' = <<>>
  /\ UNCHANGED << restVars, loginsSent, metaEl, readerVars, openVars, fileInputValue,
                  cut, loggedOut >>

\* the .catch of the login request (lines 420-424), with the message callApi threw
LoginFail(message) ==
  /\ loginsPending > 0
  /\ loginsPending' = loginsPending - 1
  /\ authMessage' = message
  /\ statusEl' = LitStatus(message)
  /\ calls' = <<>>
  /\ UNCHANGED << restVars, authVars, loginsSent, metaEl, readerVars, openVars, fileInputValue,
                  cut, loggedOut >>

\* the click handler of logoutBtn (lines 427-432); the button is hidden to guests
Logout ==
  LET r == ResetBook(Reader)
  IN  /\ uiAuthed
      /\ persistSession(NoSession)
      /\ authMessage' = AuthUIMessage(NoSession)
      /\ book' = r.book
      /\ rendition' = r.rendition
      /\ navLabels' = r.navLabels
      /\ currentLabel' = r.currentLabel
      /\ tocEl' = r.tocEl
      /\ viewerEl' = r.viewerEl
      /\ handles' = r.handles
      /\ metaEl' = MetaLit("no book loaded")
      /\ statusEl' = LitStatus("signed out")
      /\ cut' = cut \cup {j \in Invocations : InFlight(j)}
      /\ loggedOut' = TRUE
      /\ calls' = <<>>
      /\ UNCHANGED << restVars, openVars, loginVars, fileInputValue >>

\* ---- startup revalidation and register ----
\* bootstrapSession keeping the user it read from localStorage
MeOkKeepsCached(user) ==
  /\ mePending
  /\ mePending' = FALSE
  /\ persistSession(parsed)
  /\ authMessage' = AuthUIMessage(parsed)
  /\ calls' = <<>>
  /\ UNCHANGED << serverVars, parsed, registersSent, registersPending, probe, loginVars, statusEl,
                  metaEl, readerVars, openVars, fileInputValue, cut, loggedOut >>

\* bootstrapSession after its await resolved (line 183)
MeOk(user) ==
  LET payload == [token |-> parsed.token, user |-> user]
  IN  /\ mePending
      /\ mePending' = FALSE
      /\ persistSession(payload)
      /\ authMessage' = AuthUIMessage(payload)
      /\ calls' = <<>>
      /\ UNCHANGED << serverVars, parsed, registersSent, registersPending, probe, loginVars, statusEl,
                      metaEl, readerVars, openVars, fileInputValue, cut, loggedOut >>

\* the catch of bootstrapSession (lines 184-186)
MeFail ==
  /\ mePending
  /\ mePending' = FALSE
  /\ persistSession(NoSession)
  /\ authMessage' = AuthUIMessage(NoSession)
  /\ calls' = <<>>
  /\ UNCHANGED << serverVars, parsed, registersSent, registersPending, probe, loginVars, statusEl,
                  metaEl, readerVars, openVars, fileInputValue, cut, loggedOut >>

\* the submit handler of registerForm up to the request (lines 383-392)
RegisterSubmit ==
  /\ registersSent < MaxRegister
  /\ registersSent' = registersSent + 1
  /\ registersPending' = registersPending + 1
  /\ authMessage' = "creating account..."
  /\ statusEl' = LitStatus("creating account...")
  /\ calls' = <<>>
  /\ UNCHANGED << serverVars, parsed, mePending, probe, authVars, loginVars, metaEl, readerVars,
                  openVars, fileInputValue, cut, loggedOut >>

\* the .then of the register request (lines 393-397)
RegisterOk ==
  /\ registersPending > 0
  /\ registersPending' = registersPending - 1
  /\ persistSession(RegisterPayload)
  /\ authMessage' = "account ready - drop an epub"
  /\ calls' = <<>>
  /\ UNCHANGED << serverVars, parsed, mePending, probe, registersSent, loginVars, statusEl, metaEl,
                  readerVars, openVars, fileInputValue, cut, loggedOut >>

\* the .catch of the register request (lines 398-402), with the message callApi threw
RegisterFail(message) ==
  /\ registersPending > 0
  /\ registersPending' = registersPending - 1
  /\ authMessage' = message
  /\ statusEl' = LitStatus(message)
  /\ calls' = <<>>
  /\ UNCHANGED << serverVars, parsed, mePending, probe, registersSent, authVars, loginVars, metaEl,
                  readerVars, openVars, fileInputValue, cut, loggedOut >>

\* ---- the specification ----
Outcomes == {"ok", "reject"}

\* messages callApi throws for a failed login (part_002 line 130, main.ts line 124)
LoginMessages == {"Invalid credentials", "request failed"}

\* messages callApi throws for a failed register (part_002 line 92, main.ts line 124)
RegisterMessages == {"Account already exists for that email", "request failed"}

Faults == {"none", "render", "theme", "subscribe1", "subscribe2"}

Next ==
  \/ \E fromInput \in BOOLEAN, empty \in BOOLEAN : PickAndOpen(fromInput, empty)
  \/ \E i \in Invocations, out \in Outcomes \cup {"throw"} : BufDone(i, out)
  \/ \E i \in Invocations, out \in Outcomes, fault \in Faults : BookReady(i, out, fault)
  \/ \E i \in Invocations, out \in Outcomes : NavDone(i, out)
  \/ \E i \in Invocations, out \in Outcomes : DisplayDone(i, out)
  \/ \E i \in Invocations, out \in Outcomes : MetaDone(i, out)
  \/ \E i \in Invocations, out \in Outcomes, n \in LocLengths : GenDone(i, out, n)
  \/ \E r \in Renditions : \E section \in Sections(handles[r].from.owner) :
       RenderedEv(r, section)
  \/ \E r \in Renditions, cfi \in Cfis : RelocatedEv(r, cfi)
  \/ \E op \in {"prev", "next"} : NavClick(op)
  \/ \E op \in {"prev", "next", "none"} : Keydown(op)
  \/ \E k \in 1..Len(tocEl.links) : TocClick(k)
  \/ LoginSubmit
  \/ LoginOk
  \/ \E message \in LoginMessages : LoginFail(message)
  \/ Logout

Spec == Init /\ [][Next]_vars


\* the scheduling the event loop guarantees: a continuation whose promise the
\* collaborator settles is run. Nothing guarantees that locations.generate
\* settles (line 336), and nothing makes the user or the collaborator act.
FairSpec ==
  /\ Spec
  /\ \A i \in Invocations :
       /\ WF_vars(\E out \in Outcomes \cup {"throw"} : BufDone(i, out))
       /\ WF_vars(\E out \in Outcomes, fault \in Faults : BookReady(i, out, fault))
       /\ WF_vars(\E out \in Outcomes : NavDone(i, out))
       /\ WF_vars(\E out \in Outcomes : DisplayDone(i, out))
       /\ WF_vars(\E out \in Outcomes : MetaDone(i, out))

\* ---- the session at startup, with one book opened ----
\* a visit that may find a stored session
AuthInit ==
  /\ ReaderInit
  /\ ServerIdle
  /\ \E s \in {NoSession, StoredPayload} : bootstrapSession(s)
  /\ probe = NoProbe

AuthNext ==
  \/ \E user \in MeUsers : MeOk(user)
  \/ MeFail
  \/ LoginSubmit
  \/ LoginOk
  \/ \E message \in LoginMessages : LoginFail(message)
  \/ RegisterSubmit
  \/ RegisterOk
  \/ \E message \in RegisterMessages : RegisterFail(message)
  \/ Logout
  \/ nOpen = 0 /\ \E fromInput \in BOOLEAN, empty \in BOOLEAN : PickAndOpen(fromInput, empty)
  \/ \E i \in Invocations, out \in Outcomes : BufDone(i, out)
  \/ \E i \in Invocations, out \in Outcomes : BookReady(i, out, "none")
  \/ \E i \in Invocations, out \in Outcomes : NavDone(i, out)
  \/ \E i \in Invocations, out \in Outcomes : DisplayDone(i, out)
  \/ \E i \in Invocations, out \in Outcomes : MetaDone(i, out)
  \/ \E i \in Invocations, out \in Outcomes, n \in LocLengths : GenDone(i, out, n)
  \/ \E r \in Renditions : \E section \in Sections(handles[r].from.owner) :
       RenderedEv(r, section)
  \/ \E r \in Renditions, cfi \in Cfis : RelocatedEv(r, cfi)

AuthSpec == AuthInit /\ [][AuthNext]_vars

\* ---- the same with the user navigating ----
\* a user action that would navigate: prev, next, a key, a table-of-contents entry
UserNav ==
  \/ \E op \in {"prev", "next"} : NavClick(op)
  \/ \E op \in {"prev", "next", "none"} : Keydown(op)
  \/ \E k \in 1..Len(tocEl.links) : TocClick(k)

ExpiryNext == AuthNext \/ UserNav

ExpirySpec == AuthInit /\ [][ExpiryNext]_vars

\* ---- the percentage of updateProgress, fraction by fraction ----
ProgressInit ==
  /\ Page
  /\ \E f \in Fractions : probe = [fn |-> "percent", in |-> f, done |-> FALSE, out |-> 0]

\* line 270 for the fraction under study
Percent ==
  /\ probe.fn = "percent"
  /\ ~probe.done
  /\ probe' = [probe EXCEPT !.done = TRUE, !.out = RoundPct(probe.in)]
  /\ UNCHANGED pageVars

ProgressSpec == ProgressInit /\ [][Percent]_vars

\* ---- the label index of renderToc, tree by tree ----
\* the hrefs and the labels of the entries (NavItem.href, NavItem.label)
TocHrefs == { <<"a", "#", "s">>, <<"a">>, <<"b">> }

TocLabels == { <<" ", "x">>, <<"y", " ">> }

\* the lists of NavItem nested at most d levels that hold at most n entries
RECURSIVE Forests(_, _)
Forests(d, n) ==
  IF d = 0 \/ n = 0 THEN { <<>> }
  ELSE { <<>> } \cup
       UNION { { << [href |-> h, label |-> l, subitems |-> sub] >> \o rest :
                   h \in TocHrefs, l \in TocLabels,
                   sub \in Forests(d - 1, k), rest \in Forests(d, n - 1 - k) } :
               k \in 0..(n - 1) }

LabelInit ==
  /\ Page
  /\ \E toc \in Forests(MaxDepth, MaxNodes) :
       probe = [fn |-> "toc", in |-> toc, done |-> FALSE, out |-> EmptyMap]

\* renderToc(navigation.toc) on the fresh index resetBook left (lines 211, 326)
BuildIndex ==
  /\ probe.fn = "toc"
  /\ ~probe.done
  /\ probe' = [probe EXCEPT !.done = TRUE, !.out = renderToc(probe.in, EmptyMap).navLabels]
  /\ UNCHANGED pageVars

LabelSpec == LabelInit /\ [][BuildIndex]_vars

\* ---- the file pickAndOpen opens, list by list ----
\* String.prototype.toLowerCase, on the letters the file names and the emails use
Lower(c) ==
  CASE c = "E" -> "e"
    [] c = "P" -> "p"
    [] c = "U" -> "u"
    [] c = "B" -> "b"
    [] c = "A" -> "a"
    [] OTHER -> c

ToLowerCase(s) == [k \in 1..Len(s) |-> Lower(s[k])]

\* String.prototype.endsWith
EndsWith(s, suffix) ==
  /\ Len(suffix) <= Len(s)
  /\ SubSeq(s, Len(s) - Len(suffix) + 1, Len(s)) = suffix

DotEpub == <<".", "e", "p", "u", "b">>

\* the predicate of line 359 without toLowerCase
IsEpubNameExact(name) == EndsWith(name, DotEpub)

\* the predicate of line 359
IsEpubName(name) == EndsWith(ToLowerCase(name), DotEpub)

\* Array.prototype.find over files[k..], as the index of the file found, 0 for
\* undefined
RECURSIVE FindEpub(_, _)
FindEpub(files, k) ==
  IF k > Len(files) THEN 0
  ELSE IF IsEpubName(files[k]) THEN k
  ELSE FindEpub(files, k + 1)

\* lines 355-360: the index of the file handed to openBook, 0 when openBook is
\* not called; an absent list is files = null
PickFile(present, files) ==
  IF ~present \/ Len(files) = 0 THEN 0
  ELSE IF FindEpub(files, 1) # 0 THEN FindEpub(files, 1)
  ELSE 1

\* the names of the files in a list
FileNames ==
  { <<"a", ".", "e", "p", "u", "b">>,
    <<"b", ".", "E", "P", "U", "B">>,
    <<"c", ".", "E", "p", "u", "b">>,
    <<"d", ".", "t", "x", "t">>,
    <<"e", "p", "u", "b">>,
    <<".", "e", "p", "u", "b">>,
    <<"e", ".", "e", "p", "u", "b", ".", "t", "x", "t">>,
    <<"f", ".", "e", "p", "u">> }

RECURSIVE FileLists(_)
FileLists(n) ==
  IF n = 0 THEN { <<>> }
  ELSE FileLists(n - 1) \cup
       { Append(l, name) : l \in {x \in FileLists(n - 1) : Len(x) = n - 1}, name \in FileNames }

PickInit ==
  /\ Page
  /\ \E present \in BOOLEAN, files \in FileLists(MaxFiles) :
       /\ ~present => files = <<>>
       /\ probe = [fn |-> "pick", present |-> present, in |-> files,
                   done |-> FALSE, out |-> 0]

\* pickAndOpen past guardAuth (lines 355-360) for the list under study
Pick ==
  /\ probe.fn = "pick"
  /\ ~probe.done
  /\ probe' = [probe EXCEPT !.done = TRUE, !.out = PickFile(probe.present, probe.in)]
  /\ UNCHANGED pageVars

PickSpec == PickInit /\ [][Pick]_vars

\* ---- cleanText, reference by reference ----
RefChars == {"a", "/", "-", "_", ".", " "}

RECURSIVE Refs(_)
Refs(n) ==
  IF n = 0 THEN { <<>> }
  ELSE Refs(n - 1) \cup
       { Append(r, c) : r \in {x \in Refs(n - 1) : Len(x) = n - 1}, c \in RefChars }

IntroRef == <<"c", "h", "a", "p", "t", "e", "r", "s", "/", "i", "n", "t", "r", "o", "_", "0", "1", ".", "x", "h", "t", "m", "l">>

HumanizeInit ==
  /\ Page
  /\ \E ref \in Refs(MaxRef) \cup {IntroRef} :
       probe = [fn |-> "humanize", in |-> ref, done |-> FALSE, out |-> <<>>]

\* cleanText (lines 202-208) for the reference under study
Humanize ==
  /\ probe.fn = "humanize"
  /\ ~probe.done
  /\ probe' = [probe EXCEPT !.done = TRUE, !.out = cleanText(probe.in)]
  /\ UNCHANGED pageVars

HumanizeSpec == HumanizeInit /\ [][Humanize]_vars

\* ---- callApi, response by response ----
\* the status codes fetch resolves with
Statuses == 200..599

\* Response.ok
IsOk(status) == status \in 200..299

\* a response body: text that is no JSON, the JSON null, a JSON number, string
\* or boolean, a JSON array, or a JSON object whose message member is absent, no
\* string, or the string text
Body(json, msg, text) == [json |-> json, msg |-> msg, text |-> text]

Bodies ==
  { Body(json, "absent", "") : json \in {"unparseable", "null", "scalar", "array", "object"} }
    \cup { Body("object", "other", "") }
    \cup { Body("object", "string", text) : text \in {"", "Invalid credentials"} }

\* response.json().catch(() => ({})) (line 122)
ParsedBody(body) == IF body.json = "unparseable" THEN Body("object", "absent", "") ELSE body

\* what reading parsed.message of null throws (line 124)
NullMessageTypeError == "TypeError: Cannot read properties of null (reading 'message')"

\* callApi (lines 111-129) once fetch has resolved: whether the call throws,
\* the message of what it throws, and the value it returns
callApi(status, body) ==
  LET parsedBody == ParsedBody(body)
  IN  IF ~IsOk(status)
      THEN IF parsedBody.json = "null"
           THEN [failed |-> TRUE, message |-> NullMessageTypeError, value |-> parsedBody]
           ELSE [failed |-> TRUE,
                 message |-> IF parsedBody.json = "object" /\ parsedBody.msg = "string"
                             THEN parsedBody.text ELSE "request failed",
                 value |-> parsedBody]
      ELSE [failed |-> FALSE, message |-> "", value |-> parsedBody]

ApiInit ==
  /\ Page
  /\ \E status \in Statuses, body \in Bodies :
       probe = [fn |-> "callApi", status |-> status, in |-> body, done |-> FALSE,
                out |-> [failed |-> FALSE, message |-> "", value |-> body]]

\* lines 122-128 for the response under study
Respond ==
  /\ probe.fn = "callApi"
  /\ ~probe.done
  /\ probe' = [probe EXCEPT !.done = TRUE, !.out = callApi(probe.status, probe.in)]
  /\ UNCHANGED pageVars

ApiSpec == ApiInit /\ [][Respond]_vars

\* ---- the auth service (part_002) ----
\* sanitizeUser (lines 38-43)
sanitizeUser(row) ==
  [id |-> row.id, email |-> row.email, displayName |-> row.display_name,
   createdAt |-> row.created_at]

\* expiresIn: '1d' (line 48), in days
TokenLife == 1

\* createToken signing another subject than the user's id
createTokenWrongSub(user, t) ==
  [sub |-> user.id + 1, email |-> user.email, displayName |-> user.displayName,
   exp |-> t + TokenLife, sig |-> "JWT_SECRET"]

\* createToken (lines 44-50) at time t: the claims jwt.sign signs, with the
\* expiry it adds and the secret it signs with
createToken(user, t) ==
  [sub |-> user.id, email |-> user.email, displayName |-> user.displayName,
   exp |-> t + TokenLife, sig |-> "JWT_SECRET"]

\* jwt.verify (line 60) at time t does not throw
Verifies(token, t) == token.sig = "JWT_SECRET" /\ t < token.exp

\* a token the service never signed
ForgedToken ==
  [sub |-> 1, email |-> <<>>, displayName |-> <<>>, exp |-> MaxTime + 1, sig |-> "forged"]

\* String(email).toLowerCase().trim() (lines 78, 121)
NormalizeEmail(email) == Trim(ToLowerCase(email))

\* the test of line 81: /^[^@\s]+@[^@\s]+\.[^@\s]+$/
ValidEmail(e) ==
  /\ Cardinality(Positions(e, "@")) = 1
  /\ Positions(e, " ") = {}
  /\ LET at == Min(Positions(e, "@"))
     IN  /\ at > 1
         /\ \E d \in Positions(e, ".") : d > at + 1 /\ d < Len(e)

\* bcrypt.hash (line 95) and bcrypt.compare (line 134)
Hash(password) == << "$" >> \o password

Compare(password, hash) == hash = Hash(password)

\* the request bodies the service is sent
RegisterBodies ==
  { [email |-> <<"a", "@", "x", ".", "i">>, password |-> <<"p", "a", "s", "s", "w", "o", "r", "d">>, displayName |-> <<" ", "A">>],
    [email |-> <<"A", "@", "x", ".", "i", " ">>, password |-> <<"p", "a", "s", "s", "w", "o", "r", "d">>, displayName |-> <<"B">>],
    [email |-> <<"a", "@", "x">>, password |-> <<"p", "a", "s", "s", "w", "o", "r", "d">>, displayName |-> <<"A">>],
    [email |-> <<"a", "@", "x", ".", "i">>, password |-> <<"p", "w">>, displayName |-> <<"A">>],
    [email |-> <<"a", "@", "x", ".", "i">>, password |-> <<"p", "a", "s", "s", "w", "o", "r", "d">>, displayName |-> <<>>] }

LoginBodies ==
  { [email |-> <<"A", "@", "x", ".", "i", " ">>, password |-> <<"p", "a", "s", "s", "w", "o", "r", "d">>],
    [email |-> <<"a", "@", "x", ".", "i">>, password |-> <<"p", "a", "s", "s", "w", "0", "r", "d">>],
    [email |-> <<"a", "@", "x", ".", "i">>, password |-> <<>>] }

\* the tokens the service has answered with so far
Issued == {reqs[q].res.token : q \in 1..MaxReq} \ {NoToken}

\* the Authorization headers a request to /api/auth/me may carry
MeHeaders ==
  { [bearer |-> FALSE, token |-> NoToken] }
    \cup { [bearer |-> TRUE, token |-> t] : t \in Issued \cup {ForgedToken} }

\* express hands request r to its handler
Receive(r) ==
  /\ r = nReq + 1
  /\ r <= MaxReq
  /\ nReq' = r

\* the handler of r answers
Finish(r, answer) == reqs' = [reqs EXCEPT ![r].pc = "done", ![r].res = answer]

Failure(status, message) == Answer(status, message, NoUser, NoToken)

\* POST /api/auth/register up to its first query (lines 71-90)
RegisterRequest(r, body) ==
  LET normalizedEmail == NormalizeEmail(body.email)
      trimmedName == Trim(body.displayName)
      started == [NoRequest EXCEPT !.kind = "register", !.email = normalizedEmail,
                                   !.password = body.password, !.name = trimmedName,
                                   !.at = now]
      refused(message) == [started EXCEPT !.pc = "done", !.res = Failure(400, message)]
  IN  /\ Receive(r)
      /\ reqs' = [reqs EXCEPT ![r] =
           IF body.email = <<>> \/ body.password = <<>> \/ body.displayName = <<>>
           THEN refused("displayName, email, and password are required")
           ELSE IF ~ValidEmail(normalizedEmail)
           THEN refused("Email format looks invalid")
           ELSE IF Len(body.password) < 8
           THEN refused("Password must be at least 8 characters long")
           ELSE [started EXCEPT !.pc = "select"]]
      /\ UNCHANGED << users, nextId, now, clientVars, probe >>

\* the SELECT of line 90 settles (lines 90-93, 108-111)
RegisterSelect(r, dbok) ==
  /\ reqs[r].kind = "register"
  /\ reqs[r].pc = "select"
  /\ IF ~dbok
     THEN Finish(r, Failure(500, "Unable to create account right now"))
     ELSE IF \E row \in users : row.email = reqs[r].email
     THEN Finish(r, Failure(409, "Account already exists for that email"))
     ELSE reqs' = [reqs EXCEPT ![r].pc = "insert"]
  /\ UNCHANGED << users, nextId, now, nReq, clientVars, probe >>

\* bcrypt.hash and the INSERT settle (lines 95-111); the UNIQUE constraint on
\* email (SQL schema) rejects the INSERT of an email the table holds
RegisterInsert(r, dbok) ==
  LET row == [id |-> nextId, display_name |-> reqs[r].name, email |-> reqs[r].email,
              password_hash |-> Hash(reqs[r].password), created_at |-> now]
      user == sanitizeUser(row)
  IN  /\ reqs[r].kind = "register"
      /\ reqs[r].pc = "insert"
      /\ IF ~dbok \/ \E old \in users : old.email = reqs[r].email
         THEN /\ Finish(r, Failure(500, "Unable to create account right now"))
              /\ UNCHANGED << users, nextId >>
         ELSE /\ users' = users \cup {row}
              /\ nextId' = nextId + 1
              /\ Finish(r, Answer(201, "", user, createToken(user, now)))
      /\ UNCHANGED << now, nReq, clientVars, probe >>

\* POST /api/auth/login up to its query (lines 114-127)
LoginRequest(r, body) ==
  LET started == [NoRequest EXCEPT !.kind = "login", !.email = NormalizeEmail(body.email),
                                   !.password = body.password, !.at = now]
  IN  /\ Receive(r)
      /\ reqs' = [reqs EXCEPT ![r] =
           IF body.email = <<>> \/ body.password = <<>>
           THEN [started EXCEPT !.pc = "done",
                                !.res = Failure(400, "email and password are required")]
           ELSE [started EXCEPT !.pc = "select"]]
      /\ UNCHANGED << users, nextId, now, clientVars, probe >>

\* the SELECT of line 124 and bcrypt.compare settle (lines 124-146)
LoginSelect(r, dbok) ==
  LET rows == {row \in users : row.email = reqs[r].email}
  IN  /\ reqs[r].kind = "login"
      /\ reqs[r].pc = "select"
      /\ IF ~dbok
         THEN Finish(r, Failure(500, "Unable to login"))
         ELSE IF rows = {}
         THEN Finish(r, Failure(401, "Invalid credentials"))
         ELSE LET row == CHOOSE x \in rows : TRUE
                  user == sanitizeUser(row)
              IN  IF ~Compare(reqs[r].password, row.password_hash)
                  THEN Finish(r, Failure(401, "Invalid credentials"))
                  ELSE Finish(r, Answer(200, "", user, createToken(user, now)))
      /\ UNCHANGED << users, nextId, now, nReq, clientVars, probe >>

\* authenticate (lines 52-65) on a GET /api/auth/me, up to the query of line 151
MeRequest(r, header) ==
  LET started == [NoRequest EXCEPT !.kind = "me", !.token = header.token, !.at = now]
  IN  /\ Receive(r)
      /\ reqs' = [reqs EXCEPT ![r] =
           IF ~header.bearer
           THEN [started EXCEPT !.pc = "done",
                                !.res = Failure(401, "Missing authorization header")]
           ELSE IF ~Verifies(header.token, now)
           THEN [started EXCEPT !.pc = "done",
                                !.res = Failure(401, "Invalid or expired token")]
           ELSE [started EXCEPT !.pc = "select"]]
      /\ UNCHANGED << users, nextId, now, clientVars, probe >>

\* the SELECT of line 151 settles (lines 151-164)
MeSelect(r, dbok) ==
  LET rows == {row \in users : row.id = reqs[r].token.sub}
  IN  /\ reqs[r].kind = "me"
      /\ reqs[r].pc = "select"
      /\ IF ~dbok
         THEN Finish(r, Failure(500, "Unable to fetch profile"))
         ELSE IF rows = {}
         THEN Finish(r, Failure(404, "User not found"))
         ELSE Finish(r, Answer(200, "", sanitizeUser(CHOOSE x \in rows : TRUE), NoToken))
      /\ UNCHANGED << users, nextId, now, nReq, clientVars, probe >>

\* a day passes
Tick ==
  /\ now < MaxTime
  /\ now' = now + 1
  /\ UNCHANGED << users, nextId, reqs, nReq, clientVars, probe >>

\* a row is deleted from the users table by its administrator
StoreDelete(row) ==
  /\ row \in users
  /\ users' = users \ {row}
  /\ UNCHANGED << nextId, now, reqs, nReq, clientVars, probe >>

ServerInit == Page /\ probe = NoProbe

ServerNext ==
  \/ \E r \in 1..MaxReq, body \in RegisterBodies : RegisterRequest(r, body)
  \/ \E r \in 1..MaxReq, dbok \in BOOLEAN : RegisterSelect(r, dbok)
  \/ \E r \in 1..MaxReq, dbok \in BOOLEAN : RegisterInsert(r, dbok)
  \/ \E r \in 1..MaxReq, body \in LoginBodies : LoginRequest(r, body)
  \/ \E r \in 1..MaxReq, dbok \in BOOLEAN : LoginSelect(r, dbok)
  \/ \E r \in 1..MaxReq, header \in MeHeaders : MeRequest(r, header)
  \/ \E r \in 1..MaxReq, dbok \in BOOLEAN : MeSelect(r, dbok)
  \/ Tick
  \/ \E row \in users : StoreDelete(row)

ServerSpec == ServerInit /\ [][ServerNext]_vars

\* ---- register requests with valid input against a working store ----
\* the bodies that pass the tests of lines 74-88, and one for another email
ValidRegisterBodies ==
  { body \in RegisterBodies :
      /\ body.email # <<>> /\ body.password # <<>> /\ body.displayName # <<>>
      /\ ValidEmail(NormalizeEmail(body.email))
      /\ Len(body.password) >= 8 }
    \cup { [email |-> <<"b", "@", "x", ".", "i">>, password |-> <<"p", "a", "s", "s", "w", "o", "r", "d">>, displayName |-> <<"C">>] }

RegisterNext ==
  \/ \E r \in 1..MaxReq, body \in ValidRegisterBodies : RegisterRequest(r, body)
  \/ \E r \in 1..MaxReq : RegisterSelect(r, TRUE)
  \/ \E r \in 1..MaxReq : RegisterInsert(r, TRUE)

RegisterSpec == ServerInit /\ [][RegisterNext]_vars

\* ---- what the claims speak of ----
Live(h) == handles[h].made /\ handles[h].destroyed = 0

\* some continuation of invocation i runs
StepOf(i) ==
  \/ \E out \in Outcomes \cup {"throw"} : BufDone(i, out)
  \/ \E out \in Outcomes, fault \in Faults : BookReady(i, out, fault)
  \/ \E out \in Outcomes : NavDone(i, out)
  \/ \E out \in Outcomes : DisplayDone(i, out)
  \/ \E out \in Outcomes : MetaDone(i, out)
  \/ \E out \in Outcomes, n \in LocLengths : GenDone(i, out, n)

\* an event of rendition r reaches its handler
EventOf(r) ==
  \/ \E section \in Sections(handles[r].from.owner) : RenderedEv(r, section)
  \/ \E cfi \in Cfis : RelocatedEv(r, cfi)

\* C1: at most one book handle and at most one rendering handle are constructed
\* and not yet destroyed, in every reachable state
C1_OneLiveSession ==
  /\ Cardinality({h \in Books : Live(h)}) <= 1
  /\ Cardinality({h \in Renditions : Live(h)}) <= 1

\* C2: once openBook(B) has settled, where B was invoked while A was the open in
\* progress or in place, no event of the rendition A created changes the status
\* or the current label
C2_NoStaleEvent ==
  [][\A j \in Invocations \ {1} :
       (inv[j].pc = "done" /\ EventOf(Rd(j - 1)))
         => UNCHANGED << statusEl, currentLabel >>]_vars

\* C3: once openBook(B) has torn down, no continuation of an earlier invocation A
\* writes the book, the rendition, the label index, the table of contents, the
\* title or the status
C3_NoLateWrite ==
  [][\A i \in Invocations :
       (i < nOpen /\ StepOf(i))
         => UNCHANGED << book, rendition, navLabels, tocEl, metaEl, statusEl >>]_vars

\* C4: when an openBook invocation ends in failure, every handle it constructed
\* has been destroyed and the controller holds no book and no rendition
C4_NoLeakOnFailure ==
  [][\A i \in Invocations :
       (inv[i].pc # "done" /\ inv'[i].pc = "done" /\ inv'[i].failedAt # "none")
         => /\ book' = NoHandle
            /\ rendition' = NoHandle
            /\ \A h \in {Bk(i), Rd(i)} : handles'[h].made => handles'[h].destroyed > 0]_vars

\* C5: an invocation in which one of the steps read, construct, ready, render,
\* theme, subscribe, toc, display or metadata failed has ended, the last status
\* it published is the load-failure status, and it never published ready
C5_FailurePublished ==
  \A i \in Invocations :
    inv[i].failedAt # "none"
      => /\ inv[i].pc = "done"
         /\ inv[i].pubLast = "failed"
         /\ ~inv[i].pubReady

C5_Witness ==
  \E i \in Invocations :
    /\ i \notin overlap
    /\ inv[i].failedAt = "metadata"
    /\ statusEl = StatusFailed

\* C6: with no session cached, a file pick, a drop, a prev click and a next click
\* start no openBook, make no call on a rendition, leave the reading state as it
\* was and set only the sign-in message and the login-required status; and no
\* step taken without a session starts an openBook or calls prev or next
C6_AuthGate ==
  [][/\ (session = NoSession /\
          (\/ \E fromInput \in BOOLEAN, empty \in BOOLEAN : PickAndOpen(fromInput, empty)
           \/ \E op \in {"prev", "next"} : NavClick(op)))
        => /\ authMessage' = "sign in first - then import"
           /\ statusEl' = StatusLoginRequired
           /\ calls' = <<>>
           /\ UNCHANGED << inv, nOpen, book, rendition, navLabels, currentLabel, metaEl,
                           tocEl, viewerEl, handles, session, stored >>
     /\ session = NoSession
        => /\ nOpen' = nOpen
           /\ \A k \in 1..Len(calls') : calls'[k].op \notin {"prev", "next"}]_vars

C6_Witness ==
  /\ session = NoSession
  /\ loggedOut
  /\ nOpen > 0
  /\ statusEl = StatusLoginRequired
  /\ authMessage = "sign in first - then import"

\* C7: from the handling of logout until the next openBook starts, the controller
\* holds no book and no rendition and the label index is empty
C7_LogoutClears ==
  loggedOut => book = NoHandle /\ rendition = NoHandle /\ navLabels = EmptyMap

\* C8: from every reachable state resetBook leaves null references, an empty
\* label index and the 'idle' label; a second call changes nothing more; and no
\* handle is destroyed more than once
C8_ResetIdempotent ==
  LET r1 == ResetBook(Reader)
      r2 == ResetBook(r1)
  IN  /\ r1.book = NoHandle
      /\ r1.rendition = NoHandle
      /\ r1.navLabels = EmptyMap
      /\ r1.currentLabel = IDLE
      /\ r2 = r1
      /\ \A h \in AllHandles :
           /\ handles[h].destroyed <= 1
           /\ r1.handles[h].destroyed <= 1
           /\ (h \in {book, rendition} => r1.handles[h].destroyed = 1)

C8_Witness ==
  /\ book = NoHandle
  /\ rendition = NoHandle
  /\ currentLabel = IDLE
  /\ \E i \in Invocations : handles[Bk(i)].destroyed = 1 /\ handles[Rd(i)].destroyed = 1

\* C9: once the metadata step of an invocation has succeeded, the invocation
\* eventually publishes the ready status, whether or not the location index
\* is ever generated
C9_ReadyNotBlocked ==
  \A i \in Invocations : inv[i].metaOk ~> inv[i].pubReady

\* C10: when locations.generate rejects, the invocation ends by publishing the
\* ready status and not the failure status and leaves the handles alone; while
\* that invocation's book stays open, it and its rendition are held and live and
\* no 'relocated' event publishes a percentage
C10_LocationFailureNonFatal ==
  [][\A i \in Invocations :
       /\ (\E n \in LocLengths : GenDone(i, "reject", n))
            => /\ statusEl' = StatusReady
               /\ inv'[i].pc = "done"
               /\ inv'[i].pubLast = "ready"
               /\ ~inv'[i].pubFailed
               /\ UNCHANGED << book, rendition, handles >>
       /\ (inv[i].genRejected /\ i \notin overlap /\ i \notin cut /\ nOpen = i /\ ~loggedOut)
            => /\ book = Bk(i) /\ Live(Bk(i))
               /\ rendition = Rd(i) /\ Live(Rd(i))
               /\ inv[i].pubLast = "ready"
               /\ ~inv[i].pubFailed
               /\ statusEl.k # "pct"
               /\ \A r \in Renditions, cfi \in Cfis :
                    RelocatedEv(r, cfi) => statusEl' = statusEl]_vars

C10_Witness ==
  \E i \in Invocations :
    /\ inv[i].genRejected
    /\ i \notin overlap
    /\ nOpen = i
    /\ book = Bk(i)
    /\ statusEl.k = "label"

\* C11: a session found in storage at start is applied at once, with the controls
\* unlocked and the request for the current user issued; when the request
\* succeeds the session, in memory and in storage, is the stored token with the
\* returned user; when it fails the session is cleared in both and the controls
\* are locked
C11_StartupRevalidation ==
  /\ (stored # NoSession => session = stored /\ uiAuthed /\ mePending)
  /\ [][/\ \A user \in MeUsers :
            MeOk(user) =>
              /\ session' = [token |-> StoredPayload.token, user |-> user]
              /\ stored' = session'
              /\ uiAuthed'
        /\ MeFail => session' = NoSession /\ stored' = NoSession /\ ~uiAuthed']_vars

\* the request answered with a user that differs from the stored one
C11_Witness ==
  /\ ~mePending
  /\ session = [token |-> StoredPayload.token, user |-> "ada l."]
  /\ stored = session
  /\ uiAuthed

C13_NoPercentWithoutIndex ==
  [][\A r \in Renditions, cfi \in Cfis :
       (RelocatedEv(r, cfi) /\ ~HasLocations(book, handles)) => statusEl' = statusEl]_vars

\* a displayed rendition reports a location while its book has no location
\* index yet and the status shows the section's label: the handler leaves
\* this state as it is
C13_Witness ==
  /\ rendition # NoHandle
  /\ Emits(rendition, "relocated")
  /\ book = handles[rendition].from
  /\ ~HasLocations(book, handles)
  /\ statusEl = LabelStatus(currentLabel)
  /\ calls = <<>>

\* C14: every 'relocated' event publishes the current label with the percentage
\* when a percentage is available, and the current label alone when it is not
C14_RelocatedPublishes ==
  [][\A r \in Renditions, cfi \in Cfis :
       RelocatedEv(r, cfi) =>
         statusEl' = IF HasLocations(book, handles)
                       THEN PctStatus(currentLabel, RoundPct(cfi))
                       ELSE LabelStatus(currentLabel)]_vars

\* the entries of a table of contents in depth-first pre-order
RECURSIVE PreOrder(_)
PreOrder(list) ==
  IF list = <<>> THEN <<>>
  ELSE << Head(list) >> \o PreOrder(Head(list).subitems) \o PreOrder(Tail(list))

\* the references to look an entry up by: its href, its href without the
\* fragment, its href with another fragment
Lookups(href) == { href, cleanHref(href), cleanHref(href) \o <<"#", "z">> }

\* C15: once the index is built from a table of contents, looking up any href
\* of the table, with or without a fragment, finds a label, and the label is
\* the trimmed text of the last entry in depth-first pre-order whose href
\* without fragment equals the reference without fragment
C15_LabelIndex ==
  (probe.fn = "toc" /\ probe.done) =>
    LET pre == PreOrder(probe.in)
    IN  \A n \in 1..Len(pre) : \A ref \in Lookups(pre[n].href) :
          LET same == {k \in 1..Len(pre) : cleanHref(pre[k].href) = cleanHref(ref)}
          IN  /\ cleanHref(ref) \in DOMAIN probe.out
              /\ ResolveLabel(probe.out, ref) = Trim(pre[Max(same)].label)

\* the index of a three-level table in which an inner entry repeats, with a
\* fragment and another label, the file of the first entry
C15_Witness ==
  /\ probe.fn = "toc"
  /\ probe.done
  /\ Len(probe.in) = 1
  /\ probe.in[1].href = <<"a">>
  /\ probe.in[1].label = <<" ", "x">>
  /\ Len(probe.in[1].subitems) = 1
  /\ Len(probe.in[1].subitems[1].subitems) = 1
  /\ probe.in[1].subitems[1].subitems[1].href = <<"a", "#", "s">>
  /\ probe.in[1].subitems[1].subitems[1].label = <<"y", " ">>
  /\ probe.out[<<"a">>] = <<"y">>

\* a step of a register or login request that fails: its submit or its catch
AuthFailureStep ==
  \/ LoginSubmit
  \/ RegisterSubmit
  \/ \E message \in LoginMessages : LoginFail(message)
  \/ \E message \in RegisterMessages : RegisterFail(message)

\* C16: a register or login request that fails leaves the book handle, the
\* rendering handle, the label index, the current label and the cached session
\* as they were; of what the page shows only the auth message and the status
\* text change
C16_AuthFailureIsolated ==
  [][AuthFailureStep =>
       /\ UNCHANGED << book, rendition, navLabels, currentLabel, session, stored >>
       /\ UNCHANGED << handles, uiAuthed, metaEl, tocEl, viewerEl, fileInputValue >>]_vars

\* a login has failed while a book is open and a section's label is current
C16_Witness ==
  /\ loginsSent > 0
  /\ loginsPending = 0
  /\ authMessage = "Invalid credentials"
  /\ statusEl = LitStatus("Invalid credentials")
  /\ session # NoSession
  /\ book # NoHandle
  /\ rendition # NoHandle
  /\ DOMAIN navLabels # {}
  /\ currentLabel # IDLE

\* a name ends with '.epub' compared case-insensitively
EndsWithEpubAnyCase(name) ==
  /\ Len(name) >= 5
  /\ \A k \in 1..5 :
       LET c == name[Len(name) - 5 + k]
       IN  \/ c = DotEpub[k]
           \/ << c, DotEpub[k] >> \in { <<"E", "e">>, <<"P", "p">>, <<"U", "u">>, <<"B", "b">> }

\* C17: from a non-empty list of files the file opened is the first whose name
\* ends with '.epub' compared case-insensitively, or the first file of the list
\* when no name does; an empty or absent list opens nothing
C17_FileSelection ==
  (probe.fn = "pick" /\ probe.done) =>
    LET files == probe.in
        matches == {k \in 1..Len(files) : EndsWithEpubAnyCase(files[k])}
    IN  IF ~probe.present \/ files = <<>> THEN probe.out = 0
        ELSE IF matches = {} THEN probe.out = 1
        ELSE probe.out \in matches /\ \A k \in matches : probe.out <= k

\* a list whose second file is the first with an upper-case '.EPUB' name, after
\* a file that is no epub
C17_Witness ==
  /\ probe.fn = "pick"
  /\ probe.done
  /\ probe.in = << <<"d", ".", "t", "x", "t">>, <<"b", ".", "E", "P", "U", "B">>, <<"a", ".", "e", "p", "u", "b">> >>
  /\ probe.out = 2

\* seg is what follows the last '/' of value, the whole of it when it has none
IsLastSegment(value, seg) ==
  \E k \in 0..Len(value) :
    /\ k = 0 \/ value[k] = "/"
    /\ \A p \in (k + 1)..Len(value) : value[p] # "/"
    /\ seg = SubSeq(value, k + 1, Len(value))

\* t is s with each '-' and each '_' turned into a space
IsSpaced(s, t) ==
  /\ Len(t) = Len(s)
  /\ \A p \in 1..Len(s) : t[p] = IF s[p] = "-" \/ s[p] = "_" THEN " " ELSE s[p]

\* t is s without its trailing extension: a dot followed to the end by one or
\* more characters that are not dots
IsWithoutExtension(s, t) ==
  LET dots == {d \in 1..(Len(s) - 1) : s[d] = "." /\ \A p \in (d + 1)..Len(s) : s[p] # "."}
  IN  IF dots = {} THEN t = s ELSE \E d \in dots : t = SubSeq(s, 1, d - 1)

\* t is s without the blanks around it
IsTrimmed(s, t) ==
  LET inked == {p \in 1..Len(s) : s[p] # " "}
  IN  IF inked = {} THEN t = <<>> ELSE t = SubSeq(s, Min(inked), Max(inked))

\* the prefixes of s
Prefixes(s) == {SubSeq(s, 1, n) : n \in 0..Len(s)}

\* C18: for every reference, the fallback label is the last '/'-separated
\* segment, with each '-' and '_' replaced by a space, the trailing file
\* extension removed and the surrounding whitespace trimmed; for
\* "chapters/intro_01.xhtml" it is "intro 01"
C18_Humanize ==
  (probe.fn = "humanize" /\ probe.done) =>
    /\ \E k \in 0..Len(probe.in) :
         LET seg == SubSeq(probe.in, k + 1, Len(probe.in))
             spaced == [p \in 1..Len(seg) |-> IF seg[p] \in {"-", "_"} THEN " " ELSE seg[p]]
         IN  /\ IsLastSegment(probe.in, seg)
             /\ IsSpaced(seg, spaced)
             /\ \E base \in Prefixes(spaced) :
                  /\ IsWithoutExtension(spaced, base)
                  /\ IsTrimmed(base, probe.out)
    /\ probe.in = IntroRef => probe.out = <<"i", "n", "t", "r", "o", " ", "0", "1">>

\* the label made for "chapters/intro_01.xhtml"
C18_Witness ==
  /\ probe.fn = "humanize"
  /\ probe.done
  /\ probe.in = IntroRef
  /\ probe.out = <<"i", "n", "t", "r", "o", " ", "0", "1">>

ReturnedWith(t) ==
  {reqs[q].res.user.id : q \in {x \in 1..MaxReq : reqs[x].res.token = t}}

\* this step answers a GET /api/auth/me that presented, before it expired, a
\* token a register or a login returned, and the account returned with the
\* token exists when the service looks for it
AnswersHolderOf(r) ==
  /\ reqs[r].pc # "done"
  /\ reqs'[r].pc = "done"
  /\ reqs'[r].kind = "me"
  /\ reqs'[r].token \in Issued
  /\ reqs'[r].at < reqs'[r].token.exp
  /\ \E row \in users : row.id \in ReturnedWith(reqs'[r].token)

\* C20 as stated: presenting the token a successful register or login returned
\* to GET /api/auth/me yields 200 with a user whose id is the id of the user
\* returned with the token, as long as the account exists and the token has
\* not expired
C20_TokenRoundTrip ==
  [][\A r \in 1..MaxReq :
       AnswersHolderOf(r) =>
         /\ reqs'[r].res.status = 200
         /\ \A id \in ReturnedWith(reqs'[r].token) : reqs'[r].res.user.id = id]_vars

\* C20 amended: the same whenever the store answers the query of the request,
\* and 500 when it does not
C20_TokenRoundTripStoreUp ==
  [][\A r \in 1..MaxReq :
       /\ (AnswersHolderOf(r) /\ MeSelect(r, TRUE)) =>
            /\ reqs'[r].res.status = 200
            /\ \A id \in ReturnedWith(reqs'[r].token) : reqs'[r].res.user.id = id
       /\ (AnswersHolderOf(r) /\ MeSelect(r, FALSE)) => reqs'[r].res.status = 500]_vars

\* a register answered 201 and a later GET /api/auth/me with its token
\* answered 200 with the registered user's id
C20_Witness ==
  \E q \in 1..MaxReq, r \in 1..MaxReq :
    /\ reqs[q].kind = "register"
    /\ reqs[q].res.status = 201
    /\ reqs[r].kind = "me"
    /\ reqs[r].token = reqs[q].res.token
    /\ reqs[r].res.status = 200
    /\ reqs[r].res.user.id = reqs[q].res.user.id

\* the ready signal of book b has resolved: the invocation that constructed b
\* and awaits the signal (line 304) has gone past that line
ReadyResolved(b) ==
  /\ b # NoHandle
  /\ \/ inv[b.owner].pc \in {"nav", "display", "meta", "gen"}
     \/ /\ inv[b.owner].pc = "done"
        /\ inv[b.owner].failedAt \notin {"read", "construct", "ready"}

\* C21: every rendering handle was created from a book handle whose ready
\* signal had resolved, and a held rendering handle comes with the held book
\* handle it was created from, a second openBook started between the
\* construction of the first book and its ready signal included
C21_RenditionFromReadyBook ==
  /\ \A r \in Renditions : handles[r].made => ReadyResolved(handles[r].from)
  /\ rendition # NoHandle => (book # NoHandle /\ handles[rendition].from = book)

\* the startup revalidation has cleared the session found in storage, and no
\* session has been cached since: nobody logged in, registered or logged out
Revoked ==
  /\ parsed # NoSession
  /\ ~mePending
  /\ session = NoSession
  /\ ~loggedOut
  /\ loginsSent = 0
  /\ registersSent = 0

\* C22: the revalidation that clears the session releases neither the book
\* handle nor the rendering handle, and from then on, until a session is cached
\* again, no prev, next, key or table-of-contents action invokes an operation
\* on the rendering handle
C22_ExpiryGatesNavigation ==
  [][/\ MeFail => UNCHANGED << book, rendition, handles >>
     /\ (Revoked /\ UserNav) => calls' = <<>>]_vars

\* the startup request for the current user settles
MeSettles == (\E user \in MeUsers : MeOk(user)) \/ MeFail

\* C23: when a logout, a login or a registration has completed while the
\* startup revalidation was in flight, so that the session is no longer the
\* one the request was issued for, the completion of the request, success or
\* failure, leaves the session as it finds it, in memory and in storage
C23_RevalidationScoped ==
  [][(MeSettles /\ session # parsed) => UNCHANGED << session, stored, uiAuthed >>]_vars

\* C24: in every state after the synchronous part of startup the session is
\* present in memory exactly when the blob is present in storage, both hold the
\* same token, and the file input and the prev/next buttons are enabled exactly
\* when the session is present
C24_SessionConsistency ==
  /\ (session # NoSession) <=> (stored # NoSession)
  /\ session.token = stored.token
  /\ uiAuthed <=> (session # NoSession)

\* a visit that found a session in storage now holds, in memory and in storage,
\* the session a registration answered, with the controls enabled
C24_Witness ==
  /\ parsed = StoredPayload
  /\ ~mePending
  /\ session = RegisterPayload
  /\ stored = RegisterPayload
  /\ uiAuthed

\* the register requests for normalized email e that have been answered
AnsweredFor(e) ==
  {r \in 1..MaxReq : reqs[r].kind = "register" /\ reqs[r].email = e /\ reqs[r].pc = "done"}

\* C25: under any interleaving of register requests with valid input against a
\* working store, at most one account exists per normalized email, exactly one
\* of the answered requests for an email is answered 201, and every other one
\* is answered 409 with a message
C25_RegistrationUnique ==
  \A e \in {NormalizeEmail(body.email) : body \in ValidRegisterBodies} :
    /\ Cardinality({row \in users : row.email = e}) <= 1
    /\ AnsweredFor(e) # {} =>
         Cardinality({r \in AnsweredFor(e) : reqs[r].res.status = 201}) = 1
    /\ \A r \in AnsweredFor(e) :
         \/ reqs[r].res.status = 201
         \/ reqs[r].res.status = 409 /\ reqs[r].res.message # ""

====
